---- MODULE Spec2Model ----
(***************************************************************************)
(* Model of example_script.py: schedule_simple_battery builds a linear     *)
(* program over three indexed variables (ems_power, device_power_down,     *)
(* device_power_up), hands it to an LP solver, loads a solution when one   *)
(* was returned, and reads back the objective value and ems_power;         *)
(* compute_soc_schedule projects the returned schedule to a state of       *)
(* charge trajectory.                                                      *)
(*                                                                         *)
(* Reals are discretised: prices, SoC levels and powers are integers, and  *)
(* conversion_efficiency is a fraction <<num, den>>.  A SoC expression is  *)
(* kept multiplied by num * den so that down / eta + up * eta stays an     *)
(* integer.                                                                *)
(***************************************************************************)
EXTENDS Integers, Sequences, FiniteSets, TLC

VARIABLES
    consumption,             \* prices["consumption"], one per step
    production,              \* prices["production"], one per step
    soc_start,
    soc_max,
    soc_min,
    soc_target,
    power_capacity,
    conversion_efficiency,   \* <<num, den>>
    pc,                      \* position in the script
    ems_power,               \* model.ems_power[j].value
    device_power_down,       \* model.device_power_down[j].value
    device_power_up,         \* model.device_power_up[j].value
    termination_condition,   \* results.solver.termination_condition
    n_solutions,             \* len(results.solution)
    planned_costs,           \* first component of the returned pair
    planned_device_power,    \* second component of the returned pair
    outcome,                 \* "pending", "returned" or "raised"
    soc_schedule,            \* result of compute_soc_schedule
    prev                     \* what an earlier call returned, for comparing two runs

vars == <<consumption, production, soc_start, soc_max, soc_min, soc_target,
          power_capacity, conversion_efficiency, pc, ems_power, device_power_down,
          device_power_up, termination_condition, n_solutions, planned_costs,
          planned_device_power, outcome, soc_schedule, prev>>

params == <<consumption, production, soc_start, soc_max, soc_min, soc_target,
            power_capacity, conversion_efficiency>>

modelvars == <<ems_power, device_power_down, device_power_up>>

(***************************************************************************)
(* Bounds of the model.                                                    *)
(***************************************************************************)
MaxT == 2        \* longest price horizon drawn in Init
MaxSoc == 2      \* SoC levels are 0..MaxSoc
MaxCap == 1      \* power_capacity is 0..MaxCap
Slack == 1       \* how far beyond power_capacity a single variable is explored
MaxDelta == 1    \* largest uniform lowering of the production prices
MaxLen == 3      \* longest schedule given to compute_soc_schedule on its own

\* <<consumption price, production price>> of one step: negative prices,
\* equal prices, buying dearer than selling, selling dearer than buying.
PricePairs == {<<-1, -1>>, <<1, 1>>, <<2, 1>>, <<1, 2>>}

\* conversion_efficiency values, as <<num, den>>: 1/2 and 1.
Efficiencies == {<<1, 2>>, <<1, 1>>}

\* Values of one entry of a schedule given to compute_soc_schedule on its own.
PowerValues == -1 .. 1

(***************************************************************************)
(* The example scenario of the script, with the unreachable target.        *)
(***************************************************************************)
raw_production ==
    <<7, 2, 3, 4, 1, 6, 7, 2, 3, 4, 1, 6, 7, 2, 3, 4, 1, 6, 7, 2, 3, 4, 1, 6>>
raw_consumption ==
    <<8, 3, 4, 5, 2, 7, 8, 3, 4, 5, 2, 7, 8, 3, 4, 5, 2, 7, 8, 3, 4, 5, 2, 7>>
example_soc_start == 20
example_soc_max == 90
example_soc_min == 10
example_power_capacity == 10
unreachable_soc_target == 1000

(***************************************************************************)
(* Helpers.                                                                *)
(***************************************************************************)
T == Len(consumption)

Num == conversion_efficiency[1]
Den == conversion_efficiency[2]
Scale == Num * Den

Zeros(n) == [k \in 1 .. n |-> 0]

SeqsUpTo(S, n) == UNION {[1 .. k -> S] : k \in 0 .. n}

Min(S) == CHOOSE x \in S : \A y \in S : x <= y

\* np.cumsum: the running sums of p.
RECURSIVE cumsum(_)
cumsum(p) ==
    IF p = <<>> THEN <<>>
    ELSE LET c == cumsum(SubSeq(p, 1, Len(p) - 1))
             last == IF c = <<>> THEN 0 ELSE c[Len(c)]
         IN  Append(c, last + p[Len(p)])

\* compute_soc_schedule with soc_start left out of the running sums.
compute_soc_schedule_no_offset(power_schedule, start) ==
    <<start>> \o cumsum(power_schedule)

compute_soc_schedule(power_schedule, start) ==
    LET c == cumsum(power_schedule)
    IN  <<start>> \o [k \in 1 .. Len(c) |-> c[k] + start]

(***************************************************************************)
(* The optimisation model built by schedule_simple_battery.  An assignment  *)
(* m is a record of three sequences, one value per step; step j of the     *)
(* code (0-based) is position j + 1.                                       *)
(***************************************************************************)
price_up_select(j) == consumption[j + 1]

price_down_select(j) == production[j + 1]

\* ems_derivative_bounds with the lower bound left out.
ems_derivative_bounds_upper_only(ems_j) == ems_j <= power_capacity

\* Constraint rule of model.device_power_up_bounds, on the value of ems_power[j].
ems_derivative_bounds(ems_j) ==
    /\ -power_capacity <= ems_j
    /\ ems_j <= power_capacity

\* stock_change with the efficiency applied the wrong way round:
\* down * eta + up / eta.
stock_change_inverted(down_k, up_k) == down_k * Num * Num + up_k * Den * Den

\* One entry of stock_changes, times Scale:
\* down / eta + up * eta = (down * den * den + up * num * num) / (num * den).
stock_change(down_k, up_k) == down_k * Den * Den + up_k * Num * Num

\* sum(stock_changes) for k in range(0, j + 1), times Scale.
RECURSIVE sum_stock_changes(_, _)
sum_stock_changes(m, j) ==
    IF j < 0 THEN 0
    ELSE sum_stock_changes(m, j - 1)
         + stock_change(m.device_power_down[j + 1], m.device_power_up[j + 1])

\* device_bounds with the target test off by one (j == len(prices)), so that
\* the last step only stays within the SoC bounds.
device_bounds_no_target(j, body) ==
    IF j = T
    THEN /\ soc_target * Scale <= body
         /\ body <= soc_target * Scale
    ELSE /\ soc_min * Scale <= body
         /\ body <= soc_max * Scale

\* device_bounds with the target as an upper bound only at the last step.
device_bounds_target_upper(j, body) ==
    IF j = T - 1
    THEN body <= soc_target * Scale
    ELSE /\ soc_min * Scale <= body
         /\ body <= soc_max * Scale

\* Constraint rule of model.device_energy_bounds at step j; body is
\* soc_start + sum(stock_changes), times Scale.
device_bounds(j, body) ==
    IF j = T - 1
    THEN /\ soc_target * Scale <= body
         /\ body <= soc_target * Scale
    ELSE /\ soc_min * Scale <= body
         /\ body <= soc_max * Scale

\* device_derivative_equalities with the sign of device_power_down flipped.
device_derivative_equalities_sign(up_j, down_j, ems_j) ==
    /\ 0 <= up_j - down_j - ems_j
    /\ up_j - down_j - ems_j <= 0

\* Constraint rule of model.device_power_equalities, on the values of step j.
device_derivative_equalities(up_j, down_j, ems_j) ==
    /\ 0 <= up_j + down_j - ems_j
    /\ up_j + down_j - ems_j <= 0

\* cost_term with the discharge term subtracted, as the docstring's formula reads.
cost_term_minus_discharge(down_j, up_j, j) ==
    up_j * price_up_select(j) - down_j * price_down_select(j)

\* What step j adds to costs in cost_function.
cost_term(down_j, up_j, j) ==
    down_j * price_down_select(j) + up_j * price_up_select(j)

\* The objective expression, summed over the first n steps.
RECURSIVE costs_upto(_, _)
costs_upto(m, n) ==
    IF n = 0 THEN 0
    ELSE costs_upto(m, n - 1)
         + cost_term(m.device_power_down[n], m.device_power_up[n], n - 1)

cost_function(m) == costs_upto(m, Len(m.ems_power))

\* The values the variables hold now, as value(model.costs) reads them.
current_model ==
    [ems_power |-> ems_power,
     device_power_down |-> device_power_down,
     device_power_up |-> device_power_up]

(***************************************************************************)
(* The LP solver behind solver.solve(model, load_solutions=False), on the  *)
(* integer grid: each variable ranges over its domain up to                *)
(* power_capacity + Slack in magnitude.                                    *)
(***************************************************************************)
GridMax == power_capacity + Slack

NonNegativeReals == 0 .. GridMax
NonPositiveReals == -GridMax .. 0
Reals == -GridMax .. GridMax

\* The <<ems, down, up>> values of one step that meet the two per-step constraints.
StepChoices ==
    {c \in Reals \X NonPositiveReals \X NonNegativeReals :
        /\ device_derivative_equalities(c[3], c[2], c[1])
        /\ ems_derivative_bounds(c[1])}

\* The values soc_start + sum(stock_changes) (times Scale) can take at step j
\* in an assignment that meets every constraint of steps 0..j.
RECURSIVE ReachableBodies(_, _)
ReachableBodies(j, choices) ==
    LET before == IF j = 0 THEN {soc_start * Scale}
                  ELSE ReachableBodies(j - 1, choices)
        after == {b + stock_change(c[2], c[3]) : b \in before, c \in choices}
    IN  {body \in after : device_bounds(j, body)}

Feasible == T = 0 \/ ReachableBodies(T - 1, StepChoices) # {}

\* The assignments of steps 0..j that meet every constraint of those steps.
RECURSIVE FeasiblePrefixes(_, _)
FeasiblePrefixes(j, choices) ==
    LET before == IF j = 0
                  THEN {[ems_power |-> <<>>, device_power_down |-> <<>>,
                         device_power_up |-> <<>>]}
                  ELSE FeasiblePrefixes(j - 1, choices)
        after == {[ems_power |-> Append(p.ems_power, c[1]),
                   device_power_down |-> Append(p.device_power_down, c[2]),
                   device_power_up |-> Append(p.device_power_up, c[3])] :
                      p \in before, c \in choices}
    IN  {m \in after : device_bounds(j, soc_start * Scale + sum_stock_changes(m, j))}

\* A direction along which every constraint stays met and the objective falls
\* without limit: the bounded constraint bodies must not change along it.
HasImprovingRay ==
    \E j \in 0 .. T - 1, du \in {0, 1}, dd \in {-1, 0} :
        /\ du + dd = 0
        /\ stock_change(dd, du) = 0
        /\ cost_term(dd, du, j) < 0

TerminationCondition ==
    IF ~Feasible THEN "infeasible"
    ELSE IF HasImprovingRay THEN "unbounded"
    ELSE "optimal"

OptimalSolutions ==
    LET F == FeasiblePrefixes(T - 1, StepChoices)
        best == Min({cost_function(m) : m \in F})
    IN  {m \in F : cost_function(m) = best}

(***************************************************************************)
(* The script: one call of schedule_simple_battery, then                   *)
(* compute_soc_schedule on what it returned.                               *)
(***************************************************************************)
NoRun == [kind |-> "none", loaded |-> FALSE, costs |-> 0, efficiency |-> <<1, 1>>]

\* State of a call that has not built its model yet.
Fresh ==
    /\ pc = "call"
    /\ ems_power = <<>>
    /\ device_power_down = <<>>
    /\ device_power_up = <<>>
    /\ termination_condition = "none"
    /\ n_solutions = 0
    /\ planned_costs = 0
    /\ planned_device_power = <<>>
    /\ outcome = "pending"
    /\ soc_schedule = <<>>

SmallInputs ==
    /\ \E n \in 1 .. MaxT : \E pr \in [1 .. n -> PricePairs] :
          /\ consumption = [k \in 1 .. n |-> pr[k][1]]
          /\ production = [k \in 1 .. n |-> pr[k][2]]
    /\ soc_min = 0
    /\ soc_max = MaxSoc
    /\ soc_start \in soc_min .. soc_max
    /\ soc_target \in soc_min .. soc_max
    /\ power_capacity \in 0 .. MaxCap
    /\ conversion_efficiency \in Efficiencies

ExampleInputs ==
    /\ consumption = raw_consumption
    /\ production = raw_production
    /\ soc_start = example_soc_start
    /\ soc_max = example_soc_max
    /\ soc_min = example_soc_min
    /\ soc_target = unreachable_soc_target
    /\ power_capacity = example_power_capacity
    /\ conversion_efficiency = <<1, 1>>

Init ==
    /\ SmallInputs \/ ExampleInputs
    /\ Fresh
    /\ prev = NoRun

\* Lines 69-138: the variables are declared with initialize=0.
Build ==
    /\ pc = "call"
    /\ ems_power' = Zeros(T)
    /\ device_power_down' = Zeros(T)
    /\ device_power_up' = Zeros(T)
    /\ pc' = "built"
    /\ UNCHANGED <<params, termination_condition, n_solutions, planned_costs,
                   planned_device_power, outcome, soc_schedule, prev>>

\* Lines 139-141: the solve, without loading a solution.
Solve ==
    /\ pc = "built"
    /\ termination_condition' = TerminationCondition
    /\ n_solutions' = IF TerminationCondition = "optimal" THEN 1 ELSE 0
    /\ pc' = "solved"
    /\ UNCHANGED <<params, modelvars, planned_costs, planned_device_power, outcome,
                   soc_schedule, prev>>

\* Lines 143-145: the solution is loaded only if there is one.
LoadSolutions ==
    /\ pc = "solved"
    /\ IF n_solutions > 0
       THEN \E m \in OptimalSolutions :
               /\ ems_power' = m.ems_power
               /\ device_power_down' = m.device_power_down
               /\ device_power_up' = m.device_power_up
       ELSE UNCHANGED modelvars
    /\ pc' = "loaded"
    /\ UNCHANGED <<params, termination_condition, n_solutions, planned_costs,
                   planned_device_power, outcome, soc_schedule, prev>>

\* Lines 147-150: the objective value and ems_power are read back and returned.
Return ==
    /\ pc = "loaded"
    /\ planned_costs' = cost_function(current_model)
    /\ planned_device_power' = ems_power
    /\ outcome' = "returned"
    /\ pc' = "returned"
    /\ UNCHANGED <<params, modelvars, termination_condition, n_solutions,
                   soc_schedule, prev>>

\* Line 171.
ComputeSoc ==
    /\ pc = "returned"
    /\ soc_schedule' = compute_soc_schedule(planned_device_power, soc_start)
    /\ pc' = "done"
    /\ UNCHANGED <<params, modelvars, termination_condition, n_solutions,
                   planned_costs, planned_device_power, outcome, prev>>

ThisRun(kind) ==
    [kind |-> kind, loaded |-> n_solutions > 0, costs |-> planned_costs,
     efficiency |-> conversion_efficiency]

Restart ==
    /\ pc' = "call"
    /\ ems_power' = <<>>
    /\ device_power_down' = <<>>
    /\ device_power_up' = <<>>
    /\ termination_condition' = "none"
    /\ n_solutions' = 0
    /\ planned_costs' = 0
    /\ planned_device_power' = <<>>
    /\ outcome' = "pending"
    /\ soc_schedule' = <<>>

\* A second call that differs only in every production price lowered by delta.
RerunLowerSell ==
    /\ pc = "done"
    /\ prev = NoRun
    /\ \E delta \in 1 .. MaxDelta :
          production' = [k \in 1 .. T |-> production[k] - delta]
    /\ prev' = ThisRun("sell")
    /\ Restart
    /\ UNCHANGED <<consumption, soc_start, soc_max, soc_min, soc_target,
                   power_capacity, conversion_efficiency>>

\* A second call that differs only in conversion_efficiency.
RerunEfficiency ==
    /\ pc = "done"
    /\ prev = NoRun
    /\ \E e \in Efficiencies \ {conversion_efficiency} :
          conversion_efficiency' = e
    /\ prev' = ThisRun("efficiency")
    /\ Restart
    /\ UNCHANGED <<consumption, production, soc_start, soc_max, soc_min, soc_target,
                   power_capacity>>

Next ==
    \/ Build
    \/ Solve
    \/ LoadSolutions
    \/ Return
    \/ ComputeSoc
    \/ RerunLowerSell
    \/ RerunEfficiency

Spec == Init /\ [][Next]_vars

(***************************************************************************)
(* compute_soc_schedule on its own, over every short schedule.             *)
(***************************************************************************)
InitProjector ==
    /\ consumption = <<>>
    /\ production = <<>>
    /\ soc_start \in 0 .. MaxSoc
    /\ soc_max = MaxSoc
    /\ soc_min = 0
    /\ soc_target = 0
    /\ power_capacity = 0
    /\ conversion_efficiency = <<1, 1>>
    /\ pc = "returned"
    /\ ems_power = <<>>
    /\ device_power_down = <<>>
    /\ device_power_up = <<>>
    /\ termination_condition = "none"
    /\ n_solutions = 0
    /\ planned_costs = 0
    /\ planned_device_power \in SeqsUpTo(PowerValues, MaxLen)
    /\ outcome = "returned"
    /\ soc_schedule = <<>>
    /\ prev = NoRun

NextProjector == ComputeSoc

SpecProjector == InitProjector /\ [][NextProjector]_vars

(***************************************************************************)
(* Properties.                                                             *)
(***************************************************************************)
Solved == pc \in {"solved", "loaded", "returned", "done"}

Loaded == pc \in {"loaded", "returned", "done"} /\ n_solutions > 0

Returned == pc \in {"returned", "done"}

\* soc_start + sum_{k=0..j} (down[k] / eta + up[k] * eta) of the variables'
\* values, times Scale.
RECURSIVE SocTimesScale(_)
SocTimesScale(j) ==
    IF j < 0 THEN soc_start * Num * Den
    ELSE SocTimesScale(j - 1)
         + device_power_down[j + 1] * Den * Den
         + device_power_up[j + 1] * Num * Num

\* p[1] + ... + p[k]
RECURSIVE SumFirst(_, _)
SumFirst(p, k) == IF k = 0 THEN 0 ELSE SumFirst(p, k - 1) + p[k]

EfficiencyLess(a, b) == a[1] * b[2] < b[1] * a[2]

\* C1: in every assignment the constraints admit, the charge and the discharge
\* variable of each step are each bounded in magnitude by power_capacity:
\* 0 <= power_charge[j] <= power_capacity, -power_capacity <= power_discharge[j] <= 0.
C1_ChargeAndDischargeEachBounded ==
    Loaded =>
        \A k \in 1 .. T :
            /\ 0 <= device_power_up[k]
            /\ device_power_up[k] <= power_capacity
            /\ -power_capacity <= device_power_down[k]
            /\ device_power_down[k] <= 0

\* C2: when the solve reports infeasibility or returns no solution, the call
\* ends in an explicit failure and never returns a (cost, schedule) pair.
C2_NoSolutionIsAnExplicitFailure ==
    (Returned /\ (termination_condition = "infeasible" \/ n_solutions = 0))
        => outcome = "raised"

\* C3: after a successful solve with conversion_efficiency = 1, the last element
\* (index T) of compute_soc_schedule(power_schedule, soc_start) is soc_target.
C3_ProjectionEndsAtTarget ==
    (pc = "done" /\ n_solutions > 0 /\ conversion_efficiency = <<1, 1>> /\ T >= 1)
        => /\ Len(soc_schedule) = T + 1
           /\ soc_schedule[T + 1] = soc_target

C3_Witness ==
    /\ pc = "done"
    /\ n_solutions > 0
    /\ conversion_efficiency = <<1, 1>>
    /\ T = 2
    /\ soc_target # soc_start
    /\ soc_schedule[T + 1] = soc_target

C5_ProjectorIsPrefixSums ==
    /\ pc = "returned" => ENABLED ComputeSoc
    /\ pc = "done" =>
          /\ Len(soc_schedule) = Len(planned_device_power) + 1
          /\ soc_schedule[1] = soc_start
          /\ \A k \in 1 .. Len(planned_device_power) :
                soc_schedule[k + 1] = soc_start + SumFirst(planned_device_power, k)
          /\ planned_device_power = <<>> => soc_schedule = <<soc_start>>

C5_Witness ==
    /\ pc = "done"
    /\ Len(planned_device_power) = MaxLen
    /\ soc_start > 0
    /\ planned_device_power[1] = 1
    /\ planned_device_power[2] = 1
    /\ soc_schedule[3] = soc_start + 2

ValidDevice ==
    /\ soc_min <= soc_start
    /\ soc_start <= soc_max
    /\ soc_min <= soc_target
    /\ soc_target <= soc_max
    /\ power_capacity >= 0

\* C6: with conversion_efficiency = 1 and power_capacity = 0 the solve is
\* infeasible if soc_start differs from soc_target, and otherwise succeeds with
\* an all-zero net schedule and total cost 0, whatever the prices.
C6_ZeroCapacity ==
    (Solved /\ ValidDevice /\ conversion_efficiency = <<1, 1>> /\ power_capacity = 0)
        => IF soc_start # soc_target
           THEN termination_condition = "infeasible"
           ELSE /\ termination_condition = "optimal"
                /\ n_solutions > 0
                /\ Returned =>
                      /\ planned_costs = 0
                      /\ planned_device_power = Zeros(T)

\* C7: of two runs that differ only in every production price lowered by the
\* same delta > 0, the run with the lower production prices has an optimum
\* whenever the other has, and its optimal cost is not less.
C7_LowerSellPriceNeverCheaper ==
    (prev.kind = "sell" /\ prev.loaded /\ Solved)
        => /\ n_solutions > 0
           /\ Returned => planned_costs >= prev.costs

C7_Witness ==
    /\ prev.kind = "sell"
    /\ prev.loaded
    /\ Returned
    /\ n_solutions > 0
    /\ planned_costs > prev.costs

BothOptimal == prev.kind = "efficiency" /\ prev.loaded /\ Returned /\ n_solutions > 0

CostNotWorseWithHigherEfficiency ==
    /\ EfficiencyLess(prev.efficiency, conversion_efficiency)
          => planned_costs <= prev.costs
    /\ EfficiencyLess(conversion_efficiency, prev.efficiency)
          => prev.costs <= planned_costs

SaneMarket ==
    \A k \in 1 .. T :
        /\ 0 <= production[k]
        /\ production[k] <= consumption[k]

ExampleScenario ==
    /\ consumption = raw_consumption
    /\ production = raw_production
    /\ soc_start = example_soc_start
    /\ soc_max = example_soc_max
    /\ soc_min = example_soc_min
    /\ power_capacity = example_power_capacity
    /\ conversion_efficiency = <<1, 1>>
    /\ soc_target = unreachable_soc_target

\* C9: in the 24-step example with soc_target = 1000 no assignment satisfies the
\* constraints, and the solve status is infeasible.
C9_UnreachableTargetIsInfeasible ==
    ExampleScenario =>
        /\ ~Feasible
        /\ Solved => termination_condition = "infeasible"

C9_Witness ==
    /\ ExampleScenario
    /\ prev = NoRun
    /\ pc = "done"
    /\ termination_condition = "infeasible"

\* C10: after a successful solve the returned schedule has T entries, each the
\* sum of the loaded charge and discharge values and within
\* [-power_capacity, power_capacity].
C10_NetPowerWithinCapacity ==
    (Returned /\ n_solutions > 0) =>
        /\ Len(planned_device_power) = T
        /\ \A k \in 1 .. T :
              /\ planned_device_power[k] = device_power_up[k] + device_power_down[k]
              /\ -power_capacity <= planned_device_power[k]
              /\ planned_device_power[k] <= power_capacity

C10_Witness ==
    /\ Returned
    /\ n_solutions > 0
    /\ T = 2
    /\ power_capacity > 0
    /\ planned_device_power[1] = power_capacity
    /\ planned_device_power[2] = -power_capacity
    /\ device_power_up[1] > power_capacity

====
